---- MODULE Spec2Model ----
(***************************************************************************)
(* Hacker Stories: the snapshots of the App component that fetch stories   *)
(* over the network and keep them in a reducer (Spec, SpecReducer), and    *)
(* the snapshot that fills useState([]) from a delayed promise (SpecSim).  *)
(*                                                                         *)
(* Strings are sequences of one-character strings, so that toLowerCase,    *)
(* includes, the || of useStorageState and the url template are computed   *)
(* as the code computes them.                                              *)
(*                                                                         *)
(* Environment: axios.get(url) either resolves with a result whose         *)
(* data.hits is a list of stories, or rejects.  The browser runs one       *)
(* event handler, promise callback or effect at a time; React flushes the  *)
(* effects of a render, in declaration order, before the next event.       *)
(***************************************************************************)
EXTENDS Integers, Sequences, FiniteSets, TLC

\* ------------------------------------------------------------------ bounds

\* Requests one session may issue (the mount's request included): a submit
\* that would issue one more is not taken.
MaxRequests == 2

\* ----------------------------------------------------------------- strings

React == <<"R", "e", "a", "c", "t">>
Redux == <<"R", "e", "d", "u", "x">>
REACT == <<"R", "E", "A", "C", "T">>
EmptyString == << >>

\* String.prototype.toLowerCase, one character
LowerChar(c) ==
    CASE c = "R" -> "r"
      [] c = "E" -> "e"
      [] c = "A" -> "a"
      [] c = "C" -> "c"
      [] c = "T" -> "t"
      [] c = "D" -> "d"
      [] OTHER -> c

toLowerCase(s) == [i \in 1..Len(s) |-> LowerChar(s[i])]

\* String.prototype.includes: t occurs in s as a contiguous run
includes(s, t) ==
    \E i \in 0..(Len(s) - Len(t)) : SubSeq(s, i + 1, i + Len(t)) = t

\* JavaScript truthiness of a string or null: null and '' are falsy
Null == [null |-> TRUE]
Truthy(v) == v # Null /\ v # EmptyString

\* ------------------------------------------------------------ localStorage

SearchKey == "search"

\* localStorage.getItem(key): the stored string, or null when there is no entry
getItem(ls, key) == IF key \in DOMAIN ls THEN ls[key] ELSE Null

\* localStorage.setItem(key, value)
setItem(ls, key, value) ==
    [k \in (DOMAIN ls) \cup {key} |-> IF k = key THEN value ELSE ls[k]]

\* the initializer of useStorageState's useState: getItem(key) || initialState
StoredOrInitial(ls, key, initialState) ==
    IF Truthy(getItem(ls, key)) THEN getItem(ls, key) ELSE initialState

\* -------------------------------------------------------------------- data

API_ENDPOINT == <<"h", "n", "?">>

\* `${API_ENDPOINT}${searchTerm}`
UrlOf(term) == API_ENDPOINT \o term

Story(id, title) == [objectID |-> id, title |-> title]

\* The values a user types into the search box
Terms == {EmptyString, <<"r", "e">>, <<"R", "E", "D">>}

\* The hit lists the API answers with
HitLists ==
    { << >>,
      <<Story(0, React), Story(1, Redux)>>,
      <<Story(1, Redux), Story(0, React), Story(1, REACT)>> }

\* The snapshots of App that fetch from the API into the reducer
Snapshots == {"styled", "typescript", "cssmodules", "axios"}

InitialStories == [data |-> << >>, isLoading |-> FALSE, isError |-> FALSE]

NoAction == [type |-> "NONE"]

\* ----------------------------------------------------------------- reducer

\* case 'STORIES_FETCH_INIT', with the stories of the last search dropped
FetchInitClearsData(state) ==
    [state EXCEPT !.isLoading = TRUE, !.isError = FALSE, !.data = << >>]

\* case 'STORIES_FETCH_INIT', with isError left as it was
FetchInitKeepsError(state) ==
    [state EXCEPT !.isLoading = TRUE]

\* case 'STORIES_FETCH_INIT'
FetchInit(state) ==
    [state EXCEPT !.isLoading = TRUE, !.isError = FALSE]

\* case 'STORIES_FETCH_SUCCESS', with isError left as it was
FetchSuccessKeepsError(state, action) ==
    [state EXCEPT !.isLoading = FALSE, !.data = action.payload]

\* case 'STORIES_FETCH_SUCCESS', with the payload added to the stories held
FetchSuccessAppends(state, action) ==
    [state EXCEPT !.isLoading = FALSE, !.isError = FALSE,
                  !.data = state.data \o action.payload]

\* case 'STORIES_FETCH_SUCCESS'
FetchSuccess(state, action) ==
    [state EXCEPT !.isLoading = FALSE, !.isError = FALSE, !.data = action.payload]

\* case 'STORIES_FETCH_FAILURE', with the stories dropped
FetchFailureClearsData(state) ==
    [state EXCEPT !.isLoading = FALSE, !.isError = TRUE, !.data = << >>]

\* case 'STORIES_FETCH_FAILURE', with isLoading left as it was
FetchFailureKeepsLoading(state) ==
    [state EXCEPT !.isError = TRUE]

\* case 'STORIES_FETCH_FAILURE'
FetchFailure(state) ==
    [state EXCEPT !.isLoading = FALSE, !.isError = TRUE]

\* case 'REMOVE_STORY', with the stories compared by title
RemoveStoryByTitle(state, action) ==
    [state EXCEPT !.data =
        SelectSeq(state.data, LAMBDA story : action.payload.title # story.title)]

\* case 'REMOVE_STORY'
RemoveStoryCase(state, action) ==
    [state EXCEPT !.data =
        SelectSeq(state.data,
                  LAMBDA story : action.payload.objectID # story.objectID)]

\* throw new Error(): the call returns no state
ThrownError == [error |-> "Error"]

\* storiesReducer, with a default case that returns the state it was given
storiesReducerDefaultReturns(state, action) ==
    CASE action.type = "STORIES_FETCH_INIT" -> FetchInit(state)
      [] action.type = "STORIES_FETCH_SUCCESS" -> FetchSuccess(state, action)
      [] action.type = "STORIES_FETCH_FAILURE" -> FetchFailure(state)
      [] action.type = "REMOVE_STORY" -> RemoveStoryCase(state, action)
      [] OTHER -> state

storiesReducer(state, action) ==
    CASE action.type = "STORIES_FETCH_INIT" -> FetchInit(state)
      [] action.type = "STORIES_FETCH_SUCCESS" -> FetchSuccess(state, action)
      [] action.type = "STORIES_FETCH_FAILURE" -> FetchFailure(state)
      [] action.type = "REMOVE_STORY" -> RemoveStoryCase(state, action)
      [] OTHER -> ThrownError

\* ------------------------------------------------------------------- state

VARIABLES
    snapshot,        \* which snapshot of App is running
    localStorage,    \* the browser's storage: key -> string
    mounted,         \* App is rendered (a session is open)
    searchTerm,      \* useStorageState's value
    url,             \* useState url
    stories,         \* useReducer state
    requests,        \* the axios.get calls of this session, in issue order
    pendingEffects,  \* effects of the last render that have not run yet
    lastAction,      \* the last action handed to dispatchStories
    prevStories,     \* the reducer state that action was applied to
    lastFetchAction, \* type of the last STORIES_FETCH_* action dispatched
    thrown,          \* the reducer threw on the last action
    lastSuccess,     \* payload of the last STORIES_FETCH_SUCCESS dispatched
    urlChanges       \* submits of this session that set a new url

vars == <<snapshot, localStorage, mounted, searchTerm, url, stories, requests,
          pendingEffects, lastAction, prevStories, lastFetchAction, thrown, lastSuccess, urlChanges>>

\* searchedStories: the stories whose title contains searchTerm, ignoring case
searchedStories ==
    SelectSeq(stories.data,
              LAMBDA story : includes(toLowerCase(story.title), toLowerCase(searchTerm)))

\* the list prop handed to <List>
ListProp ==
    IF snapshot = "styled" THEN stories.data ELSE searchedStories

\* {stories.isError && <p>Something went wrong ...</p>}
ErrorRendered == mounted /\ stories.isError

\* stories.isLoading ? <p>Loading ...</p> : ...
LoadingRendered == mounted /\ stories.isLoading

\* <List> rendered beside the Loading indicator instead of in its place
ListRenderedAlways == mounted

\* <List> is rendered only when the Loading indicator is not
ListRendered == mounted /\ ~stories.isLoading

\* The action types of the reducer's four cases
FetchActionTypes ==
    {"STORIES_FETCH_INIT", "STORIES_FETCH_SUCCESS", "STORIES_FETCH_FAILURE"}

\* dispatchStories(action): useReducer stores what the reducer returns; when
\* the reducer throws there is nothing to store and the error escapes.
dispatchStories(action) ==
    LET result == storiesReducer(stories, action)
    IN /\ stories' = IF result = ThrownError THEN stories ELSE result
       /\ thrown' = (result = ThrownError)
       /\ lastAction' = action
       /\ prevStories' = stories
       /\ lastFetchAction' =
            IF action.type \in FetchActionTypes THEN action.type
                                                ELSE lastFetchAction
       /\ lastSuccess' =
            IF action.type = "STORIES_FETCH_SUCCESS" THEN action.payload
                                                     ELSE lastSuccess

\* ----------------------------------------------------------------- actions

Init ==
    /\ snapshot \in Snapshots
    /\ localStorage = << >>
    /\ mounted = FALSE
    /\ searchTerm = EmptyString
    /\ url = EmptyString
    /\ stories = InitialStories
    /\ requests = << >>
    /\ pendingEffects = {}
    /\ lastAction = NoAction
    /\ prevStories = InitialStories
    /\ lastFetchAction = "NONE"
    /\ thrown = FALSE
    /\ lastSuccess = << >>
    /\ urlChanges = 0

\* The first render of App: the useState / useReducer initializers run and
\* every effect is scheduled.
Mount ==
    /\ ~mounted
    /\ mounted' = TRUE
    /\ searchTerm' = StoredOrInitial(localStorage, SearchKey, React)
    /\ url' = UrlOf(searchTerm')
    /\ stories' = InitialStories
    /\ pendingEffects' = {"storage", "fetch"}
    /\ UNCHANGED <<snapshot, localStorage, requests, lastAction, prevStories,
                   lastFetchAction, thrown, lastSuccess, urlChanges>>

\* useStorageState's effect: localStorage.setItem(key, value)
StorageEffect ==
    /\ mounted
    /\ "storage" \in pendingEffects
    /\ localStorage' = setItem(localStorage, SearchKey, searchTerm)
    /\ pendingEffects' = pendingEffects \ {"storage"}
    /\ UNCHANGED <<snapshot, mounted, searchTerm, url, stories, requests,
                   lastAction, prevStories, lastFetchAction, thrown, lastSuccess, urlChanges>>

\* handleFetchStories, with the requests still in flight aborted first
FetchEffectAborting ==
    /\ mounted
    /\ pendingEffects = {"fetch"}
    /\ dispatchStories([type |-> "STORIES_FETCH_INIT"])
    /\ requests' = Append(SelectSeq(requests, LAMBDA r : r.status # "pending"),
                          [url |-> url, status |-> "pending", hits |-> << >>,
                           dispatched |-> << >>])
    /\ pendingEffects' = {}
    /\ UNCHANGED <<snapshot, localStorage, mounted, searchTerm, url, urlChanges>>

\* The effect on [handleFetchStories]: dispatch INIT and call axios.get(url)
FetchEffect ==
    /\ mounted
    /\ pendingEffects = {"fetch"}
    /\ dispatchStories([type |-> "STORIES_FETCH_INIT"])
    /\ requests' = Append(requests,
                          [url |-> url, status |-> "pending", hits |-> << >>,
                           dispatched |-> << >>])
    /\ pendingEffects' = {}
    /\ UNCHANGED <<snapshot, localStorage, mounted, searchTerm, url, urlChanges>>

\* handleSearchInput, with the storage effect not run again (deps [])
SearchInputNoStorageEffect(value) ==
    /\ mounted
    /\ pendingEffects = {}
    /\ value # searchTerm
    /\ searchTerm' = value
    /\ UNCHANGED <<snapshot, localStorage, mounted, url, stories, requests,
                   pendingEffects, lastAction, prevStories, lastFetchAction,
                   thrown, lastSuccess, urlChanges>>

\* handleSearchInput, with handleFetchStories memoized on [searchTerm]
SearchInputRefetches(value) ==
    /\ mounted
    /\ pendingEffects = {}
    /\ value # searchTerm
    /\ searchTerm' = value
    /\ pendingEffects' = {"storage", "fetch"}
    /\ UNCHANGED <<snapshot, localStorage, mounted, url, stories, requests,
                   lastAction, prevStories, lastFetchAction, thrown, lastSuccess, urlChanges>>

\* handleSearchInput: setSearchTerm(event.target.value)
SearchInput(value) ==
    /\ mounted
    /\ pendingEffects = {}
    /\ value # searchTerm
    /\ searchTerm' = value
    /\ pendingEffects' = {"storage"}
    /\ UNCHANGED <<snapshot, localStorage, mounted, url, stories, requests,
                   lastAction, prevStories, lastFetchAction, thrown, lastSuccess, urlChanges>>

\* handleSearchSubmit, with handleFetchStories not memoized on [url]
SearchSubmitAlwaysRefetches ==
    /\ mounted
    /\ pendingEffects = {}
    /\ Truthy(searchTerm)
    /\ Len(requests) < MaxRequests
    /\ url' = UrlOf(searchTerm)
    /\ pendingEffects' = {"fetch"}
    /\ urlChanges' = IF url' # url THEN urlChanges + 1 ELSE urlChanges
    /\ UNCHANGED <<snapshot, localStorage, mounted, searchTerm, stories,
                   requests, lastAction, prevStories, lastFetchAction,
                   thrown, lastSuccess>>

\* handleSearchSubmit: setUrl(`${API_ENDPOINT}${searchTerm}`); the submit
\* button is disabled while searchTerm is empty.  A url equal to the current
\* one leaves handleFetchStories as it is and schedules nothing.
SearchSubmit ==
    /\ mounted
    /\ pendingEffects = {}
    /\ Truthy(searchTerm)
    /\ (UrlOf(searchTerm) # url) => Len(requests) < MaxRequests
    /\ url' = UrlOf(searchTerm)
    /\ IF url' # url
         THEN pendingEffects' = {"fetch"} /\ urlChanges' = urlChanges + 1
         ELSE UNCHANGED <<pendingEffects, urlChanges>>
    /\ UNCHANGED <<snapshot, localStorage, mounted, searchTerm, stories,
                   requests, lastAction, prevStories, lastFetchAction,
                   thrown, lastSuccess>>

\* axios.get resolves: dispatch STORIES_FETCH_SUCCESS with result.data.hits
Resolve(i, hits) ==
    /\ mounted
    /\ pendingEffects = {}
    /\ requests[i].status = "pending"
    /\ dispatchStories([type |-> "STORIES_FETCH_SUCCESS", payload |-> hits])
    /\ requests' = [requests EXCEPT ![i].status = "resolved", ![i].hits = hits,
                      ![i].dispatched = Append(@, "STORIES_FETCH_SUCCESS")]
    /\ UNCHANGED <<snapshot, localStorage, mounted, searchTerm, url,
                   pendingEffects, urlChanges>>

\* axios.get rejects: dispatch STORIES_FETCH_FAILURE
Reject(i) ==
    /\ mounted
    /\ pendingEffects = {}
    /\ requests[i].status = "pending"
    /\ dispatchStories([type |-> "STORIES_FETCH_FAILURE"])
    /\ requests' = [requests EXCEPT ![i].status = "rejected",
                      ![i].dispatched = Append(@, "STORIES_FETCH_FAILURE")]
    /\ UNCHANGED <<snapshot, localStorage, mounted, searchTerm, url,
                   pendingEffects, urlChanges>>

\* handleRemoveStory(item), from the Dismiss button of a rendered item
RemoveStory(item) ==
    /\ ListRendered
    /\ pendingEffects = {}
    /\ \E k \in 1..Len(ListProp) : ListProp[k] = item
    /\ dispatchStories([type |-> "REMOVE_STORY", payload |-> item])
    /\ UNCHANGED <<snapshot, localStorage, mounted, searchTerm, url, requests,
                   pendingEffects, urlChanges>>

\* The page is closed or reloaded: the component state and the requests in
\* flight are gone, localStorage stays.
Reload ==
    /\ mounted
    /\ pendingEffects = {}
    /\ mounted' = FALSE
    /\ searchTerm' = EmptyString
    /\ url' = EmptyString
    /\ stories' = InitialStories
    /\ requests' = << >>
    /\ lastAction' = NoAction
    /\ prevStories' = InitialStories
    /\ lastFetchAction' = "NONE"
    /\ thrown' = FALSE
    /\ lastSuccess' = << >>
    /\ urlChanges' = 0
    /\ UNCHANGED <<snapshot, localStorage, pendingEffects>>

StoryPool == {Story(0, React), Story(1, Redux), Story(1, REACT)}

Next ==
    \/ Mount
    \/ StorageEffect
    \/ FetchEffect
    \/ \E value \in Terms : SearchInput(value)
    \/ SearchSubmit
    \/ \E i \in 1..Len(requests) : \E hits \in HitLists : Resolve(i, hits)
    \/ \E i \in 1..Len(requests) : Reject(i)
    \/ \E item \in StoryPool : RemoveStory(item)
    \/ Reload

Spec == Init /\ [][Next]_vars

\* ------------------------------------------------------- the reducer alone

\* The reducer driven by any sequence of its four actions with any payload,
\* from the state useReducer starts with.
InitReducer ==
    /\ snapshot \in Snapshots
    /\ localStorage = << >>
    /\ mounted = TRUE
    /\ searchTerm = React
    /\ url = UrlOf(React)
    /\ stories = InitialStories
    /\ requests = << >>
    /\ pendingEffects = {}
    /\ lastAction = NoAction
    /\ prevStories = InitialStories
    /\ lastFetchAction = "NONE"
    /\ thrown = FALSE
    /\ lastSuccess = << >>
    /\ urlChanges = 0

\* Action types the reducer has no case for
OtherActionTypes == {"ADD_STORY", "stories_fetch_init"}

\* An error that escapes the render takes the component tree down: nothing
\* is dispatched after it.
Dispatch(action) ==
    /\ ~thrown
    /\ dispatchStories(action)
    /\ UNCHANGED <<snapshot, localStorage, mounted, searchTerm, url, requests,
                   pendingEffects, urlChanges>>

NextReducer ==
    \/ Dispatch([type |-> "STORIES_FETCH_INIT"])
    \/ \E hits \in HitLists :
         Dispatch([type |-> "STORIES_FETCH_SUCCESS", payload |-> hits])
    \/ Dispatch([type |-> "STORIES_FETCH_FAILURE"])
    \/ \E item \in StoryPool :
         Dispatch([type |-> "REMOVE_STORY", payload |-> item])
    \/ \E type \in OtherActionTypes : Dispatch([type |-> type])

SpecReducer == InitReducer /\ [][NextReducer]_vars

\* ----------------------------------------------- the simulated-fetch snapshot

\* The snapshot that keeps stories in useState([]) and fills it from
\* getAsyncStories, a promise resolved by a 2000 ms timer.  Here stories is
\* the array itself, and requests holds the getAsyncStories calls.

initialStories == <<Story(0, React), Story(1, Redux)>>

InitSim ==
    /\ snapshot = "simulated"
    /\ localStorage = << >>
    /\ mounted = FALSE
    /\ searchTerm = EmptyString
    /\ url = EmptyString
    /\ stories = << >>
    /\ requests = << >>
    /\ pendingEffects = {}
    /\ lastAction = NoAction
    /\ prevStories = << >>
    /\ lastFetchAction = "NONE"
    /\ thrown = FALSE
    /\ lastSuccess = << >>
    /\ urlChanges = 0

\* The first render, with the stories already in the initial state
SimMountWithStories ==
    /\ ~mounted
    /\ mounted' = TRUE
    /\ searchTerm' = StoredOrInitial(localStorage, SearchKey, React)
    /\ stories' = initialStories
    /\ pendingEffects' = {"storage", "fetch"}
    /\ UNCHANGED <<snapshot, localStorage, url, requests, lastAction,
                   prevStories, lastFetchAction, thrown, lastSuccess, urlChanges>>

\* The first render: useStorageState('search', 'React'), useState([]), and
\* both effects scheduled.
SimMount ==
    /\ ~mounted
    /\ mounted' = TRUE
    /\ searchTerm' = StoredOrInitial(localStorage, SearchKey, React)
    /\ stories' = << >>
    /\ pendingEffects' = {"storage", "fetch"}
    /\ UNCHANGED <<snapshot, localStorage, url, requests, lastAction,
                   prevStories, lastFetchAction, thrown, lastSuccess, urlChanges>>

\* useStorageState's effect
SimStorageEffect ==
    /\ mounted
    /\ "storage" \in pendingEffects
    /\ localStorage' = setItem(localStorage, SearchKey, searchTerm)
    /\ pendingEffects' = pendingEffects \ {"storage"}
    /\ UNCHANGED <<snapshot, mounted, searchTerm, url, stories, requests,
                   lastAction, prevStories, lastFetchAction, thrown,
                   lastSuccess, urlChanges>>

\* The effect with the empty dependency array: getAsyncStories() is called
\* and its timer started.
SimFetchEffect ==
    /\ mounted
    /\ pendingEffects = {"fetch"}
    /\ requests' = Append(requests, [status |-> "pending"])
    /\ pendingEffects' = {}
    /\ UNCHANGED <<snapshot, localStorage, mounted, searchTerm, url, stories,
                   lastAction, prevStories, lastFetchAction, thrown,
                   lastSuccess, urlChanges>>

\* The timer fires, the promise resolves and the then callback runs
\* setStories(result.data.stories).
SimResolve(i) ==
    /\ mounted
    /\ pendingEffects = {}
    /\ requests[i].status = "pending"
    /\ requests' = [requests EXCEPT ![i].status = "resolved"]
    /\ stories' = initialStories
    /\ UNCHANGED <<snapshot, localStorage, mounted, searchTerm, url,
                   pendingEffects, lastAction, prevStories, lastFetchAction,
                   thrown, lastSuccess, urlChanges>>

\* handleSearch, with the fetch effect given no dependency array
SimSearchRerunsFetch(value) ==
    /\ mounted
    /\ pendingEffects = {}
    /\ value # searchTerm
    /\ searchTerm' = value
    /\ pendingEffects' = {"storage", "fetch"}
    /\ UNCHANGED <<snapshot, localStorage, mounted, url, stories, requests,
                   lastAction, prevStories, lastFetchAction, thrown,
                   lastSuccess, urlChanges>>

\* handleSearch: setSearchTerm(event.target.value)
SimSearch(value) ==
    /\ mounted
    /\ pendingEffects = {}
    /\ value # searchTerm
    /\ searchTerm' = value
    /\ pendingEffects' = {"storage"}
    /\ UNCHANGED <<snapshot, localStorage, mounted, url, stories, requests,
                   lastAction, prevStories, lastFetchAction, thrown,
                   lastSuccess, urlChanges>>

\* handleRemoveStory(item): setStories(stories.filter(...)).  The handler is
\* taken for every story, rendered or not, so that a removal made before the
\* stories arrive is covered.
SimRemoveStory(item) ==
    /\ mounted
    /\ pendingEffects = {}
    /\ stories' = SelectSeq(stories,
                            LAMBDA story : item.objectID # story.objectID)
    /\ lastAction' = [type |-> "REMOVE_STORY", payload |-> item]
    /\ prevStories' = stories
    /\ UNCHANGED <<snapshot, localStorage, mounted, searchTerm, url, requests,
                   pendingEffects, lastFetchAction, thrown, lastSuccess,
                   urlChanges>>

\* The page is closed or reloaded: state and timer are gone, localStorage stays.
SimReload ==
    /\ mounted
    /\ pendingEffects = {}
    /\ mounted' = FALSE
    /\ searchTerm' = EmptyString
    /\ stories' = << >>
    /\ requests' = << >>
    /\ lastAction' = NoAction
    /\ prevStories' = << >>
    /\ UNCHANGED <<snapshot, localStorage, url, pendingEffects,
                   lastFetchAction, thrown, lastSuccess, urlChanges>>

NextSim ==
    \/ SimMount
    \/ SimStorageEffect
    \/ SimFetchEffect
    \/ \E i \in 1..Len(requests) : SimResolve(i)
    \/ \E value \in Terms : SimSearch(value)
    \/ \E k \in 1..Len(initialStories) : SimRemoveStory(initialStories[k])
    \/ SimReload

SpecSim == InitSim /\ [][NextSim]_vars

\* ------------------------------------------------------------------ claims

Settled(r) == r.status # "pending"

\* C1: when several requests were in flight at once and all of them have
\* resolved, stories.data holds the hits of the most recently submitted
\* request (stated at the state the last answer leaves behind).
C1_LastSubmittedWins ==
    ( /\ mounted
      /\ Len(requests) >= 2
      /\ \A i \in 1..Len(requests) : requests[i].status = "resolved"
      /\ lastAction.type = "STORIES_FETCH_SUCCESS" )
    => stories.data = requests[Len(requests)].hits

\* C2: isLoading and isError are never both true.
C2_NoImpossibleState == ~(stories.isLoading /\ stories.isError)

\* C2 witness: STORIES_FETCH_FAILURE was applied to a loading state.
C2_Witness ==
    /\ lastAction.type = "STORIES_FETCH_FAILURE"
    /\ prevStories.isLoading
    /\ stories.isError

\* C3: isError is true exactly when the most recent STORIES_FETCH_* action
\* the reducer processed was STORIES_FETCH_FAILURE, and that action is
\* dispatched only for a request that rejected.
C3_ErrorIffLastFetchFailed ==
    /\ stories.isError <=> (lastFetchAction = "STORIES_FETCH_FAILURE")
    /\ \A i \in 1..Len(requests) :
         (\E k \in 1..Len(requests[i].dispatched) :
             requests[i].dispatched[k] = "STORIES_FETCH_FAILURE")
         => requests[i].status = "rejected"
    /\ lastAction.type = "STORIES_FETCH_FAILURE"
         => \E i \in 1..Len(requests) : requests[i].status = "rejected"

\* C3 witness: the flag set by a rejected request outlives a later removal.
C3_Witness ==
    /\ stories.isError
    /\ lastFetchAction = "STORIES_FETCH_FAILURE"
    /\ lastAction.type = "REMOVE_STORY"

\* C4: one axios.get for the mount and one for each submit that set a new
\* url: once the effects of a render have run, the session has issued
\* 1 + urlChanges requests, the newest of them for the current url, and
\* while the fetch effect is pending one less.
C4_OneRequestPerSearch ==
    mounted =>
        /\ Len(requests) + (IF "fetch" \in pendingEffects THEN 1 ELSE 0)
              = 1 + urlChanges
        /\ "fetch" \notin pendingEffects
              => requests[Len(requests)].url = url

\* C4 witness: a submit with a new url has issued the session's second request.
C4_Witness ==
    /\ mounted
    /\ pendingEffects = {}
    /\ urlChanges = 1
    /\ Len(requests) = 2
    /\ requests[2].url # requests[1].url

\* Each request has had the terminal action of its outcome dispatched once,
\* and none while it is pending.
C5_TerminalActions ==
    \A i \in 1..Len(requests) :
        requests[i].dispatched =
            CASE requests[i].status = "pending" -> << >>
              [] requests[i].status = "resolved" -> <<"STORIES_FETCH_SUCCESS">>
              [] requests[i].status = "rejected" -> <<"STORIES_FETCH_FAILURE">>

\* No step of an open session drops a request, changes a settled one, or
\* touches an earlier request when a submit changes url or a request is issued.
C5_StepKeepsRequests ==
    (mounted /\ mounted') =>
        /\ Len(requests') >= Len(requests)
        /\ \A i \in 1..Len(requests) :
             /\ requests'[i].url = requests[i].url
             /\ Settled(requests[i]) => requests'[i] = requests[i]
             /\ (url' # url \/ Len(requests') > Len(requests))
                  => requests'[i] = requests[i]

\* C5: a request is never cancelled.  It stays in flight across a submit,
\* and once it settles exactly one terminal action has been dispatched for
\* it: SUCCESS if it resolved, FAILURE if it rejected.
C5_NeverCancelled == [](C5_TerminalActions) /\ [][C5_StepKeepsRequests]_vars

\* C5 witness: the earlier of two requests answered after the later one.
C5_Witness ==
    /\ Len(requests) = 2
    /\ requests[1].status = "resolved"
    /\ requests[2].status = "rejected"
    /\ lastAction.type = "STORIES_FETCH_SUCCESS"

\* The index in seq of the j-th story whose objectID is not id
NthKept(seq, id, j) ==
    CHOOSE k \in 1..Len(seq) :
        /\ seq[k].objectID # id
        /\ Cardinality({m \in 1..k : seq[m].objectID # id}) = j

\* C6: REMOVE_STORY removes exactly the stories whose objectID equals the
\* payload's, keeps the others in their order and leaves the flags alone.
C6_RemoveStory ==
    lastAction.type = "REMOVE_STORY" =>
        LET id == lastAction.payload.objectID
            before == prevStories.data
            after == stories.data
        IN /\ stories.isLoading = prevStories.isLoading
           /\ stories.isError = prevStories.isError
           /\ Len(after) =
                Cardinality({k \in 1..Len(before) : before[k].objectID # id})
           /\ \A j \in 1..Len(after) : after[j] = before[NthKept(before, id, j)]

\* C6 witness: a removal took two stories with the same objectID out of
\* three and kept the third.
C6_Witness ==
    /\ lastAction.type = "REMOVE_STORY"
    /\ Len(prevStories.data) = 3
    /\ Len(stories.data) = 1

\* C7: in every fetching snapshot the list handed to <List> is the stories
\* of stories.data whose title contains searchTerm, ignoring case.
C7_ListIsSearchedStories ==
    ListRendered => ListProp = searchedStories

\* the first render has been committed and its effects have not run yet
JustMounted == mounted /\ pendingEffects = {"storage", "fetch"}

\* C8: on mount useStorageState returns the stored value whenever an entry
\* exists under the key, and initialState only when there is none.
C8_StoredValueIsInitial ==
    JustMounted =>
        searchTerm = IF SearchKey \in DOMAIN localStorage
                       THEN localStorage[SearchKey]
                       ELSE React

\* C9: once the effects of the last render have run, localStorage under
\* 'search' equals the current searchTerm.
C9_StorageFollowsSearchTerm ==
    (mounted /\ "storage" \notin pendingEffects) =>
        /\ SearchKey \in DOMAIN localStorage
        /\ localStorage[SearchKey] = searchTerm

\* C9 witness: the search box was cleared and the effect stored ''.
C9_Witness ==
    /\ mounted
    /\ pendingEffects = {}
    /\ searchTerm = EmptyString
    /\ SearchKey \in DOMAIN localStorage
    /\ localStorage[SearchKey] = EmptyString

C11_OtherTypesThrow ==
    /\ thrown <=> lastAction.type \in OtherActionTypes
    /\ thrown => stories = prevStories

\* C11 witness: an action of an unknown type hit a state holding stories.
C11_Witness ==
    /\ thrown
    /\ lastAction.type = "stories_fetch_init"
    /\ Len(stories.data) = 3

\* C12: in the simulated-fetch snapshot getAsyncStories is called exactly
\* once per mounted component, whatever is typed or removed: never before
\* the effects of the first render have run, and once ever after.
C12_FetchRunsOnce ==
    mounted => Len(requests) = (IF "fetch" \in pendingEffects THEN 0 ELSE 1)

\* C12 witness: after a keystroke and a removal that took a story away,
\* there is still the one call.
C12_Witness ==
    /\ mounted
    /\ pendingEffects = {}
    /\ Len(requests) = 1
    /\ searchTerm = <<"r", "e">>
    /\ lastAction.type = "REMOVE_STORY"
    /\ Len(stories) = 1

\* C13: STORIES_FETCH_SUCCESS overwrites the state: whatever the state was,
\* data is the action's payload and both flags are false.
C13_SuccessOverwrites ==
    lastAction.type = "STORIES_FETCH_SUCCESS" =>
        /\ stories.data = lastAction.payload
        /\ stories.isLoading = FALSE
        /\ stories.isError = FALSE

\* C13 witness: a success landed on a state that was not loading, carried
\* the error flag and held other stories than the payload.
C13_Witness ==
    /\ lastAction.type = "STORIES_FETCH_SUCCESS"
    /\ prevStories.isError
    /\ ~prevStories.isLoading
    /\ Len(prevStories.data) = 1
    /\ Len(stories.data) = 3

\* C14: STORIES_FETCH_FAILURE leaves data as it was and sets isLoading
\* false and isError true.
C14_FailureKeepsData ==
    lastAction.type = "STORIES_FETCH_FAILURE" =>
        /\ stories.data = prevStories.data
        /\ stories.isLoading = FALSE
        /\ stories.isError = TRUE

\* C14 witness: a request was rejected while stories loaded earlier were held.
C14_Witness ==
    /\ lastAction.type = "STORIES_FETCH_FAILURE"
    /\ \E i \in 1..Len(requests) : requests[i].status = "rejected"
    /\ Len(stories.data) = 3

\* C15: STORIES_FETCH_INIT sets isLoading, clears isError and leaves data as
\* it was, so the stories of the last search stay while the next one loads.
C15_InitKeepsData ==
    lastAction.type = "STORIES_FETCH_INIT" =>
        /\ stories.data = prevStories.data
        /\ stories.isLoading = TRUE
        /\ stories.isError = FALSE

\* C15 witness: INIT hit a state with the error flag set and stories held.
C15_Witness ==
    /\ lastAction.type = "STORIES_FETCH_INIT"
    /\ prevStories.isError
    /\ Len(stories.data) = 2

\* C16: the view is a function of the two flags: exactly one of the Loading
\* indicator and the list is rendered, the list exactly when isLoading is
\* false, and the error message exactly when isError is true.
C16_ViewFollowsFlags ==
    mounted =>
        /\ LoadingRendered # ListRendered
        /\ ListRendered <=> ~stories.isLoading
        /\ ErrorRendered <=> stories.isError

\* C16 witness: after a rejected request the error message and the list of
\* the stories loaded earlier are both on screen.
C16_Witness ==
    /\ ErrorRendered
    /\ ListRendered
    /\ ~LoadingRendered
    /\ Len(stories.data) = 2

\* C18: isLoading is true in every state in which a request is outstanding.
C18_LoadingWhileOutstanding ==
    (mounted /\ \E i \in 1..Len(requests) : requests[i].status = "pending")
        => stories.isLoading

RECURSIVE IsSubseq(_, _)
\* a is b with some elements left out
IsSubseq(a, b) ==
    IF a = << >> THEN TRUE
    ELSE IF b = << >> THEN FALSE
    ELSE IF Head(a) = Head(b) THEN IsSubseq(Tail(a), Tail(b))
    ELSE IsSubseq(a, Tail(b))

\* C19: stories.data is a subsequence of the payload of the most recent
\* STORIES_FETCH_SUCCESS (empty before the first one); a dispatch lengthens
\* data only if it is a SUCCESS, and changes it otherwise only by a
\* REMOVE_STORY leaving stories out.
C19_DataWithinLastSuccess ==
    /\ IsSubseq(stories.data, lastSuccess)
    /\ Len(stories.data) > Len(prevStories.data)
         => lastAction.type = "STORIES_FETCH_SUCCESS"
    /\ (stories.data # prevStories.data
          /\ lastAction.type # "STORIES_FETCH_SUCCESS")
         => /\ lastAction.type = "REMOVE_STORY"
            /\ IsSubseq(stories.data, prevStories.data)

\* C19 witness: removals took two of three loaded stories, then a failure
\* and a new INIT left the remaining one in place.
C19_Witness ==
    /\ Len(lastSuccess) = 3
    /\ Len(stories.data) = 1
    /\ lastAction.type = "STORIES_FETCH_INIT"
    /\ prevStories.isError

\* The delayed promise of getAsyncStories has resolved
StoriesArrived ==
    \E i \in 1..Len(requests) : requests[i].status = "resolved"

\* The step in which the delayed promise resolves
ArrivalStep ==
    \E i \in 1..Len(requests) :
        /\ i <= Len(requests')
        /\ requests[i].status = "pending"
        /\ requests'[i].status = "resolved"

\* C17: in the simulated-fetch snapshot stories is the empty list until the
\* delayed promise resolves, so a removal made before that changes nothing,
\* and the step that resolves the promise makes stories the full
\* initialStories.
C17_EmptyUntilArrival ==
    /\ []((mounted /\ ~StoriesArrived) =>
            (stories = << >> /\ prevStories = << >>))
    /\ [][ArrivalStep => stories' = initialStories]_vars

\* C17 witness: a removal was made while the promise was still pending.
C17_Witness ==
    /\ mounted
    /\ Len(requests) = 1
    /\ ~StoriesArrived
    /\ lastAction.type = "REMOVE_STORY"
    /\ stories = << >>

====
